---- MODULE Spec2Model ----
(***************************************************************************)
(* Credential resolution of the RPI Qiskit sandbox.                        *)
(*                                                                         *)
(* load_qiskit_runtime (src/initializing_qiskit.py) connects to the IBM    *)
(* runtime service with an instance and a token given on the command line, *)
(* and, when fallback is on, with the combinations of the command-line and *)
(* the environment values.  One behaviour of Spec is one call of           *)
(* load_qiskit_runtime; every QiskitRuntimeService(...) construction is a  *)
(* step of its own, recorded in calls.                                     *)
(***************************************************************************)
EXTENDS Integers, Sequences, FiniteSets, TLC

\* ------------------------------------------------------------------------
\* Bounds of the model: how many distinct non-empty instance names and
\* tokens the command line and the environment draw from.
NumInstances == 2
NumTokens == 2
NumBackends == 2

\* ------------------------------------------------------------------------
\* Values.  A parameter is a Python Optional[str]: None, the empty string,
\* or a non-empty string.
None == "<None>"
Empty == ""

InstanceNames == {"I" \o ToString(i) : i \in 1..NumInstances}
TokenNames == {"T" \o ToString(i) : i \in 1..NumTokens}

BackendNames == {"B" \o ToString(i) : i \in 1..NumBackends}

InstanceValues == {None, Empty} \cup InstanceNames
TokenValues == {None, Empty} \cup TokenNames
BackendValues == {None, Empty} \cup BackendNames

\* Python truthiness of an Optional[str]: None and "" are falsy.
Truthy(v) == v # None /\ v # Empty

\* The labels of the four attempts of the fallback loader.
L1 == "[1] CLI instance + CLI token"
L2 == "[2] CLI instance + ENV token"
L3 == "[3] ENV instance + CLI token"
L4 == "[4] ENV instance + ENV token"
NoLabel == "<no label>"

\* Messages of the exceptions the loaders raise.
MsgBothRequired == "Both instance and token must be provided to load Qiskit runtime service."
MsgLoadFailed == "Failed to load Qiskit runtime service: {e}"
MsgAllFailed == "All attempts to authenticate with IBM Quantum failed."

\* The error of a rejected QiskitRuntimeService(...) construction.
ConnectError(i, t) == [type |-> "ConnectError", instance |-> i, token |-> t]
NoError == [type |-> "<none>", instance |-> None, token |-> None]

\* An exception leaving the loader: its type, its message (its only
\* argument) and its __cause__ (raise ... from e).
Exc(type, msg, cause) == [type |-> type, msg |-> msg, cause |-> cause]
NoExc == Exc("<none>", "", NoError)

\* The service object a successful construction returns; call is the
\* position of the construction in calls.
Service(n, i, t) == [call |-> n, instance |-> i, token |-> t]
NoService == Service(0, None, None)

VARIABLES
    fallback,       \* the fallback argument of load_qiskit_runtime
    argInstance,    \* the instance the caller passed
    argToken,       \* the token the caller passed
    environ,        \* the process environment: IBMQ_INSTANCE, IBMQ_TOKEN
    accept,         \* the (instance, token) pairs the remote service accepts
    pc,             \* position in the loader
    instance,       \* the local variable instance
    token,          \* the local variable token
    env,            \* the Namespace _environment_parser returned, if called
    alt_attempts,   \* the list alt_attempts
    idx,            \* position of the for loop in alt_attempts
    calls,          \* the QiskitRuntimeService(...) constructions made so far
    log,            \* the logging records emitted so far
    diag,           \* the values of the final logging.debug lines
    outcome         \* how the call ended

\* The run before this one, when load_qiskit_runtime is called a second time
\* with the same arguments.
VARIABLES
    prev            \* number of the current run, and how the run before ended

twiceVars == <<prev>>

\* main.get_qiskit_runtime_service(args).
VARIABLES
    args,           \* the Namespace passed: offline, token, instance, backend
    available,      \* the backend names the remote service offers
    profileOk,      \* whether NoiseModel.from_backend returns
    spc,            \* position in get_qiskit_runtime_service
    service,        \* the local variable service: 0, or the remote call that made it
    backend,        \* the local variable backend
    remote,         \* the remote calls made so far
    warnings,       \* the [WARNING] lines printed so far
    result          \* how get_qiskit_runtime_service ended

selectorInputs == <<args, available, profileOk>>
selectorVars == <<args, available, profileOk, spc, service, backend, remote, warnings, result>>

\* load_qiskit_backend(service, backend_name, fallback) and
\* initialize_qiskit(log_level, fallback).
VARIABLES
    consoleBackend, \* console.backend: the --backend of the command line
    environBackend, \* the process environment: IBMQ_BACKEND
    unnamedOk,      \* whether service.backend(name=None) returns
    listOk,         \* whether service.backends() returns
    bpc,            \* position in load_qiskit_backend and initialize_qiskit
    backend_name,   \* the parameter backend_name of load_qiskit_backend
    benv,           \* the Namespace _environment_parser returned there
    lookups,        \* the service.backend(name=...) calls made so far
    boutcome,       \* how load_qiskit_backend ended
    ioutcome        \* how initialize_qiskit ended

backendInputs == <<consoleBackend, environBackend, unnamedOk, listOk>>
backendVars == <<consoleBackend, environBackend, unnamedOk, listOk, bpc, backend_name,
                 benv, lookups, boutcome, ioutcome>>

\* The token field of the log records.
VARIABLES
    secret,         \* the token value that reaches the log sites
    masked          \* the token fields logged so far, one per log site

maskVars == <<secret, masked>>

\* main2.load_qiskit_runtime(instance, token, backend).
VARIABLES
    cli_instance,   \* the argument instance
    cli_token,      \* the argument token
    cli_backend,    \* the argument backend
    env_instance,   \* os.getenv("IBMQ_INSTANCE")
    env_token,      \* os.getenv("IBMQ_TOKEN")
    env_backend,    \* os.getenv("IBMQ_BACKEND")
    m2pc,           \* position in main2.load_qiskit_runtime
    m2attempts,     \* its list alt_attempts
    m2idx,          \* the next entry of alt_attempts the for loop takes
    m2remote,       \* the remote calls made so far, in order
    m2outcome       \* how the call ended

main2Inputs == <<cli_instance, cli_token, cli_backend, env_instance, env_token, env_backend>>
main2Vars == <<main2Inputs, m2pc, m2attempts, m2idx, m2remote, m2outcome>>

\* main.console_parser().
VARIABLES
    argv,           \* the Namespace parse_args() returned (line 76)
    osenv,          \* the process environment: IBMQ_INSTANCE, _BACKEND, _TOKEN, _SHOTS
    keyFile,        \* the file system at the path given with --key
    cpc,            \* position in console_parser
    parsed,         \* the Namespace args as console_parser rewrites it
    clog,           \* the log records of console_parser
    coutcome        \* how console_parser ended

consoleInputs == <<argv, osenv, keyFile>>
consoleVars == <<argv, osenv, keyFile, cpc, parsed, clog, coutcome>>

\* The variables of the operations other than load_qiskit_runtime.
beyond == <<selectorVars, backendVars, maskVars, main2Vars, consoleVars>>

\* The variables no step of load_qiskit_runtime changes.
outside == <<twiceVars, beyond>>

vars == <<fallback, argInstance, argToken, environ, accept, pc, instance, token,
          env, alt_attempts, idx, calls, log, diag, outcome, outside>>

inputs == <<fallback, argInstance, argToken, environ, accept>>

\* ------------------------------------------------------------------------
\* _environment_parser: reads IBMQ_INSTANCE and IBMQ_TOKEN.
NotLoaded == [loaded |-> FALSE, instance |-> None, token |-> None]
EnvironmentParser(environment) ==
    [loaded |-> TRUE, instance |-> environment.instance, token |-> environment.token]

\* QiskitRuntimeService(channel, instance, token): TRUE when it returns,
\* FALSE when it raises.
Connects(i, t) == <<i, t>> \in accept

\* One construction, as recorded in calls.
Call(label, i, t) == [label |-> label, instance |-> i, token |-> t, ok |-> Connects(i, t)]

LogRec(level, event, label, err) == [level |-> level, event |-> event, label |-> label, err |-> err]

NoDiag == [written |-> FALSE, cliInstance |-> None, cliToken |-> None,
           envInstance |-> None, envToken |-> None]

Running == [kind |-> "running", service |-> NoService, exc |-> NoExc]
Returned(s) == [kind |-> "returned", service |-> s, exc |-> NoExc]
Raised(e) == [kind |-> "raised", service |-> NoService, exc |-> e]

\* ------------------------------------------------------------------------
\* No run before this one.
NoPrev == [run |-> 1, calls |-> <<>>, outcome |-> Running]

TwiceIdle == prev = NoPrev

\* What get_qiskit_runtime_service returns or raises.  A returned value is
\* the tuple (service, backend, noise_model) or a service alone.
NoBackend == "<no backend>"
LocalBackend == "AerSimulator()"
SeededBackend == "AerSimulator(noise_model)"
NoNoise == "<no noise model>"
NoiseOf(name) == "NoiseModel(" \o name \o ")"

SelRunning ==
    [kind |-> "running", shape |-> "<none>", service |-> 0, backend |-> NoBackend,
     noise |-> NoNoise, exc |-> NoExc]
SelReturned(shape, svc, be, nm) ==
    [kind |-> "returned", shape |-> shape, service |-> svc, backend |-> be,
     noise |-> nm, exc |-> NoExc]
SelRaised(e) ==
    [kind |-> "raised", shape |-> "<none>", service |-> 0, backend |-> NoBackend,
     noise |-> NoNoise, exc |-> e]

NoArgs == [offline |-> FALSE, token |-> None, instance |-> None, backend |-> None]

SelectorIdle ==
    /\ args = NoArgs
    /\ available = {}
    /\ profileOk = FALSE
    /\ spc = "idle"
    /\ service = 0
    /\ backend = NoBackend
    /\ remote = <<>>
    /\ warnings = <<>>
    /\ result = SelRunning

\* What load_qiskit_backend and initialize_qiskit return or raise.
DefaultBackend == "<backend of name=None>"
BackendRunning == [kind |-> "running", backend |-> NoBackend, exc |-> NoExc]
BackendReturned(b) == [kind |-> "returned", backend |-> b, exc |-> NoExc]
BackendRaised(e) == [kind |-> "raised", backend |-> NoBackend, exc |-> e]

BackendNotLoaded == [loaded |-> FALSE, backend |-> None]

BackendIdle ==
    /\ consoleBackend = None
    /\ environBackend = None
    /\ unnamedOk = FALSE
    /\ listOk = FALSE
    /\ bpc = "idle"
    /\ backend_name = None
    /\ benv = BackendNotLoaded
    /\ lookups = <<>>
    /\ boutcome = BackendRunning
    /\ ioutcome = BackendRunning

\* What main2.load_qiskit_runtime returns or raises.
PairRunning == [kind |-> "running", service |-> NoService, backend |-> NoBackend, exc |-> NoExc]
PairReturned(s, b) == [kind |-> "returned", service |-> s, backend |-> b, exc |-> NoExc]
PairRaised(e) == [kind |-> "raised", service |-> NoService, backend |-> NoBackend, exc |-> e]

Main2Idle ==
    /\ cli_instance = None
    /\ cli_token = None
    /\ cli_backend = None
    /\ env_instance = None
    /\ env_token = None
    /\ env_backend = None
    /\ m2pc = "idle"
    /\ m2attempts = <<>>
    /\ m2idx = 1
    /\ m2remote = <<>>
    /\ m2outcome = PairRunning

\* An Optional[str] given by its characters.
NoneSecret == [none |-> TRUE, chars |-> <<>>]
Text(c) == [none |-> FALSE, chars |-> c]

\* The Namespace of main.console_parser; the key is an Optional[str] given
\* by its characters.
DefaultShots == 1024
Unset == "<unset>"
NoNamespace == [offline |-> FALSE, env |-> FALSE, instance |-> None, backend |-> None,
                shots |-> DefaultShots, key |-> NoneSecret]
NoFile == [state |-> "missing", contents |-> <<>>]

ConsoleRunning == [kind |-> "running", args |-> NoNamespace, exc |-> NoExc]
ConsoleReturned(a) == [kind |-> "returned", args |-> a, exc |-> NoExc]
ConsoleRaised(e) == [kind |-> "raised", args |-> NoNamespace, exc |-> e]

ConsoleIdle ==
    /\ argv = NoNamespace
    /\ osenv = [instance |-> None, backend |-> None, token |-> NoneSecret, shots |-> Unset]
    /\ keyFile = NoFile
    /\ cpc = "idle"
    /\ parsed = NoNamespace
    /\ clog = <<>>
    /\ coutcome = ConsoleRunning

MaskIdle ==
    /\ secret = NoneSecret
    /\ masked = {}

Init ==
    /\ TwiceIdle
    /\ SelectorIdle
    /\ BackendIdle
    /\ MaskIdle
    /\ ConsoleIdle
    /\ Main2Idle
    /\ fallback \in BOOLEAN
    /\ argInstance \in InstanceValues
    /\ argToken \in TokenValues
    /\ environ \in [instance : InstanceValues, token : TokenValues]
    /\ accept \in SUBSET (InstanceNames \X TokenNames)
    /\ pc = "call"
    /\ instance = argInstance
    /\ token = argToken
    /\ env = NotLoaded
    /\ alt_attempts = <<>>
    /\ idx = 1
    /\ calls = <<>>
    /\ log = <<>>
    /\ diag = NoDiag
    /\ outcome = Running

\* ------------------------------------------------------------------------
\* load_qiskit_runtime: the branch on fallback.
UseFallbackAlways(fb) == TRUE
UseFallback(fb) == fb

\* _load_qiskit_runtime: "if not (instance and token)".
MissingRequiredBoth(i, t) == ~(Truthy(i) \/ Truthy(t))
MissingRequired(i, t) == ~(Truthy(i) /\ Truthy(t))

\* load_qiskit_runtime(fallback=False) -> _load_qiskit_runtime, up to the
\* construction: raise ValueError when instance or token is missing.
LoadRuntimeCheck ==
    /\ pc = "call"
    /\ ~UseFallback(fallback)
    /\ IF MissingRequired(instance, token)
       THEN /\ log' = Append(log, LogRec("error", "both_required", NoLabel, NoError))
            /\ outcome' = Raised(Exc("ValueError", MsgBothRequired, NoError))
            /\ pc' = "done"
       ELSE /\ log' = Append(log, LogRec("info", "loading", NoLabel, NoError))
            /\ outcome' = outcome
            /\ pc' = "connect"
    /\ UNCHANGED <<outside, inputs, instance, token, env, alt_attempts, idx, calls, diag>>

\* _load_qiskit_runtime: the one construction, wrapped in RuntimeError when
\* it raises.
LoadRuntimeConnect ==
    /\ pc = "connect"
    /\ calls' = Append(calls, Call(NoLabel, instance, token))
    /\ IF Connects(instance, token)
       THEN /\ log' = Append(log, LogRec("info", "loaded", NoLabel, NoError))
            /\ outcome' = Returned(Service(Len(calls) + 1, instance, token))
       ELSE /\ log' = Append(log, LogRec("error", "failed", NoLabel, ConnectError(instance, token)))
            /\ outcome' = Raised(Exc("RuntimeError", MsgLoadFailed, ConnectError(instance, token)))
    /\ pc' = "done"
    /\ UNCHANGED <<outside, inputs, instance, token, env, alt_attempts, idx, diag>>

\* ------------------------------------------------------------------------
\* _load_qiskit_runtime_fallback.

\* "if instance and token": the CLI pair is tried first.
HasPrimaryTokenOnly(i, t) == Truthy(t)
HasPrimary(i, t) == Truthy(i) /\ Truthy(t)

\* The alt_attempts list: (label, instance, token) of every alternate whose
\* two values are truthy, in the order the code appends them.
AltAttemptsReversed(i, t, e) ==
    (IF Truthy(e.instance) /\ Truthy(e.token) THEN << <<L4, e.instance, e.token>> >> ELSE <<>>)
    \o (IF Truthy(e.instance) /\ Truthy(t) THEN << <<L3, e.instance, t>> >> ELSE <<>>)
    \o (IF Truthy(i) /\ Truthy(e.token) THEN << <<L2, i, e.token>> >> ELSE <<>>)
AltAttemptsWrongGuard(i, t, e) ==
    (IF Truthy(i) /\ Truthy(t) THEN << <<L2, i, e.token>> >> ELSE <<>>)
    \o (IF Truthy(e.instance) /\ Truthy(t) THEN << <<L3, e.instance, t>> >> ELSE <<>>)
    \o (IF Truthy(e.instance) /\ Truthy(e.token) THEN << <<L4, e.instance, e.token>> >> ELSE <<>>)
AltAttemptsNoMixed(i, t, e) ==
    IF Truthy(e.instance) /\ Truthy(e.token) THEN << <<L4, e.instance, e.token>> >> ELSE <<>>
AltAttempts(i, t, e) ==
    (IF Truthy(i) /\ Truthy(e.token) THEN << <<L2, i, e.token>> >> ELSE <<>>)
    \o (IF Truthy(e.instance) /\ Truthy(t) THEN << <<L3, e.instance, t>> >> ELSE <<>>)
    \o (IF Truthy(e.instance) /\ Truthy(e.token) THEN << <<L4, e.instance, e.token>> >> ELSE <<>>)

\* "return service" inside the try: a construction that returned ends the
\* loader, one that raised leaves it in the loop.
AfterAttemptContinue(ok) == "loop"
AfterAttempt(ok) == IF ok THEN "done" ELSE "loop"

\* logging.error(f"Failed to load Qiskit runtime service: {label} - {e}")
FailureLogNoLabel(label, err) == LogRec("error", "failed", NoLabel, err)
FailureLog(label, err) == LogRec("error", "failed", label, err)

\* raise RuntimeError("All attempts to authenticate with IBM Quantum failed.")
AllFailedErrorAsValueError == Exc("ValueError", MsgAllFailed, NoError)
AllFailedError == Exc("RuntimeError", MsgAllFailed, NoError)

\* The log records and the outcome of one attempt (label, i, t).
AttemptLog(label, i, t) ==
    <<LogRec("info", "attempting", label, NoError)>>
    \o (IF Connects(i, t)
        THEN <<LogRec("info", "loaded", label, NoError)>>
        ELSE <<FailureLog(label, ConnectError(i, t))>>)

AttemptOutcome(i, t) ==
    IF Connects(i, t) THEN Returned(Service(Len(calls) + 1, i, t)) ELSE outcome

\* The for loop moves to the next entry of alt_attempts after every pass.
NextEntryOnSuccessOnly(i, ok) == IF ok THEN i + 1 ELSE i
NextEntry(i, ok) == i + 1

\* Entry: env = _environment_parser(), then the branch on the CLI pair.
FallbackStart ==
    /\ pc = "call"
    /\ UseFallback(fallback)
    /\ env' = EnvironmentParser(environ)
    /\ log' = Append(log, LogRec("debug", "environment", NoLabel, NoError))
    /\ IF HasPrimary(instance, token)
       THEN /\ pc' = "primary"
            /\ alt_attempts' = alt_attempts
       ELSE /\ pc' = "loop"
            /\ alt_attempts' = AltAttempts(instance, token, env')
    /\ UNCHANGED <<outside, inputs, instance, token, idx, calls, diag, outcome>>

\* Attempt [1]: the CLI instance and the CLI token; when it raises, the
\* alternates are listed.
FallbackPrimary ==
    /\ pc = "primary"
    /\ calls' = Append(calls, Call(L1, instance, token))
    /\ outcome' = AttemptOutcome(instance, token)
    /\ pc' = AfterAttempt(Connects(instance, token))
    /\ IF Connects(instance, token)
       THEN /\ log' = log \o AttemptLog(L1, instance, token)
            /\ alt_attempts' = alt_attempts
       ELSE /\ log' = log \o AttemptLog(L1, instance, token)
                          \o <<LogRec("warning", "alternates", NoLabel, NoError)>>
            /\ alt_attempts' = AltAttempts(instance, token, env)
    /\ UNCHANGED <<outside, inputs, instance, token, env, idx, diag>>

\* One pass of "for (label, instance, token) in alt_attempts": the loop
\* variables rebind the locals instance and token.
FallbackAttempt ==
    /\ pc = "loop"
    /\ idx <= Len(alt_attempts)
    /\ LET a == alt_attempts[idx] IN
        /\ instance' = a[2]
        /\ token' = a[3]
        /\ calls' = Append(calls, Call(a[1], a[2], a[3]))
        /\ log' = log \o AttemptLog(a[1], a[2], a[3])
        /\ outcome' = AttemptOutcome(a[2], a[3])
        /\ pc' = AfterAttempt(Connects(a[2], a[3]))
        /\ idx' = NextEntry(idx, Connects(a[2], a[3]))
    /\ UNCHANGED <<outside, inputs, env, alt_attempts, diag>>

\* The loop is over and nothing returned: the final diagnostics and the
\* RuntimeError.
FallbackExhausted ==
    /\ pc = "loop"
    /\ idx > Len(alt_attempts)
    /\ log' = log \o <<LogRec("error", "all_failed", NoLabel, NoError),
                       LogRec("error", "check_arguments", NoLabel, NoError),
                       LogRec("debug", "cli_values", NoLabel, NoError),
                       LogRec("debug", "env_values", NoLabel, NoError)>>
    /\ diag' = [written |-> TRUE, cliInstance |-> instance, cliToken |-> token,
                envInstance |-> env.instance, envToken |-> env.token]
    /\ outcome' = Raised(AllFailedError)
    /\ pc' = "done"
    /\ UNCHANGED <<outside, inputs, instance, token, env, alt_attempts, idx, calls>>

Next ==
    \/ LoadRuntimeCheck
    \/ LoadRuntimeConnect
    \/ FallbackStart
    \/ FallbackPrimary
    \/ FallbackAttempt
    \/ FallbackExhausted

Spec == Init /\ [][Next]_vars

\* The stubs of the fair specification: QiskitRuntimeService(...) accepts no
\* pair, exactly one pair, or every pair.
OnePairStubs ==
    {{}, InstanceNames \X TokenNames} \cup {{p} : p \in InstanceNames \X TokenNames}

FairInit == Init /\ accept \in OnePairStubs

\* The call is sequential code: while a step is left to take, and every
\* QiskitRuntimeService(...) call returns or raises, the next step is taken.
SpecFair == FairInit /\ [][Next]_vars /\ WF_vars(Next)

\* ------------------------------------------------------------------------
\* Two calls of load_qiskit_runtime in a row, with the same arguments, the
\* same environment and the same remote service.

\* The parameters of a call are bound to its arguments (line 56, line 109).
StaleLocals(i, t) == [instance |-> instance, token |-> token]
FreshLocals(i, t) == [instance |-> i, token |-> t]

\* The first call is over; the caller calls again.  Every local of the
\* loader is created anew; what the first call did is kept in prev.
CallAgain ==
    /\ pc = "done"
    /\ prev.run = 1
    /\ prev' = [run |-> 2, calls |-> calls, outcome |-> outcome]
    /\ pc' = "call"
    /\ instance' = FreshLocals(argInstance, argToken).instance
    /\ token' = FreshLocals(argInstance, argToken).token
    /\ env' = NotLoaded
    /\ alt_attempts' = <<>>
    /\ idx' = 1
    /\ calls' = <<>>
    /\ log' = <<>>
    /\ diag' = NoDiag
    /\ outcome' = Running
    /\ UNCHANGED <<inputs, beyond>>

NextTwice ==
    \/ Next
    \/ CallAgain

SpecTwice == Init /\ [][NextTwice]_vars

\* ========================================================================
\* main.get_qiskit_runtime_service(args): the backend for offline (local
\* simulator) or online execution.  One behaviour of SpecSelector is one
\* call; every remote call is a step of its own, recorded in remote.

\* load_qiskit_runtime is not running.
RuntimeIdle ==
    /\ fallback = FALSE
    /\ argInstance = None
    /\ argToken = None
    /\ accept \in {{}, InstanceNames \X TokenNames}
    /\ environ \in [instance : {None}, token : TokenValues]
    /\ pc = "idle"
    /\ instance = None
    /\ token = None
    /\ env = NotLoaded
    /\ alt_attempts = <<>>
    /\ idx = 1
    /\ calls = <<>>
    /\ log = <<>>
    /\ diag = NoDiag
    /\ outcome = Running

runtimeVars == <<inputs, pc, instance, token, env, alt_attempts, idx, calls, log, diag, outcome>>

SelectorInit ==
    /\ TwiceIdle
    /\ RuntimeIdle
    /\ BackendIdle
    /\ MaskIdle
    /\ ConsoleIdle
    /\ Main2Idle
    /\ args \in [offline : BOOLEAN, token : TokenValues, instance : InstanceValues,
                 backend : BackendValues]
    /\ available \in SUBSET BackendNames
    /\ profileOk \in BOOLEAN
    /\ spc = "call"
    /\ service = 0
    /\ backend = NoBackend
    /\ remote = <<>>
    /\ warnings = <<>>
    /\ result = SelRunning

MsgNameError == "name '_environment_parser' is not defined"
MsgOnlineRequires == "Online execution requires --token, --instance, and --backend."
MsgBothNeeded == "Both --token and --instance must be provided to initialize Qiskit Runtime Service."
MsgConnectFailed == "Failed to connect to Qiskit Runtime Service: {e}"
WarnNoiseFailed == "[WARNING] Failed to load noise model from backend"
WarnPartial == "[WARNING] Partial credentials provided. Noise model will not be generated."

\* The remote calls: QiskitRuntimeService(...), service.backend(name) and
\* NoiseModel.from_backend(real_backend).
RemoteCall(op, ok) == [op |-> op, ok |-> ok]
BackendFound(name) == name \in available

\* "args.token and args.instance and args.backend" and "any([...])".
AllThree(a) == Truthy(a.token) /\ Truthy(a.instance) /\ Truthy(a.backend)
AnyOfThree(a) == Truthy(a.token) \/ Truthy(a.instance) \/ Truthy(a.backend)

\* Lines 133-158, up to the first remote call.  With no token in args,
\* line 133 calls _environment_parser, a name main.py neither defines nor
\* imports: NameError.
SelectorEntry ==
    /\ spc = "call"
    /\ IF ~Truthy(args.token)
       THEN /\ result' = SelRaised(Exc("NameError", MsgNameError, NoError))
            /\ spc' = "done"
            /\ warnings' = warnings
       ELSE IF args.offline
       THEN IF AllThree(args)
            THEN /\ result' = result
                 /\ spc' = "offline_connect"
                 /\ warnings' = warnings
            ELSE IF AnyOfThree(args)
            THEN /\ result' = SelReturned("tuple", 0, LocalBackend, NoNoise)
                 /\ spc' = "done"
                 /\ warnings' = Append(warnings, WarnPartial)
            ELSE /\ result' = SelReturned("tuple", 0, LocalBackend, NoNoise)
                 /\ spc' = "done"
                 /\ warnings' = warnings
       ELSE IF ~AllThree(args)
            THEN /\ result' = SelRaised(Exc("ValueError", MsgOnlineRequires, NoError))
                 /\ spc' = "done"
                 /\ warnings' = warnings
            ELSE /\ result' = result
                 /\ spc' = "online_connect"
                 /\ warnings' = warnings
    /\ UNCHANGED <<twiceVars, runtimeVars, backendVars, maskVars, main2Vars, consoleVars, selectorInputs, service, backend, remote>>

\* The except of line 145: a warning, an unseeded simulator in the local
\* backend, and control goes on to line 168.
OfflineFailure ==
    /\ warnings' = Append(warnings, WarnNoiseFailed)
    /\ backend' = LocalBackend
    /\ spc' = "tail"
    /\ result' = result

\* Line 139, offline with all three values.
OfflineConnect ==
    /\ spc = "offline_connect"
    /\ remote' = Append(remote, RemoteCall("connect", Connects(args.instance, args.token)))
    /\ IF Connects(args.instance, args.token)
       THEN /\ service' = Len(remote) + 1
            /\ spc' = "offline_backend"
            /\ UNCHANGED <<backend, warnings, result>>
       ELSE /\ service' = service
            /\ OfflineFailure
    /\ UNCHANGED <<twiceVars, runtimeVars, backendVars, maskVars, main2Vars, consoleVars, selectorInputs>>

\* Line 140.
OfflineBackend ==
    /\ spc = "offline_backend"
    /\ remote' = Append(remote, RemoteCall("backend", BackendFound(args.backend)))
    /\ IF BackendFound(args.backend)
       THEN /\ spc' = "offline_noise"
            /\ UNCHANGED <<backend, warnings, result>>
       ELSE OfflineFailure
    /\ UNCHANGED <<twiceVars, runtimeVars, backendVars, maskVars, main2Vars, consoleVars, selectorInputs, service>>

\* Lines 141-144: the noise model of the real backend, and the return of
\* the seeded simulator.
OfflineNoise ==
    /\ spc = "offline_noise"
    /\ remote' = Append(remote, RemoteCall("noise", profileOk))
    /\ IF profileOk
       THEN /\ backend' = SeededBackend
            /\ result' = SelReturned("tuple", service, SeededBackend, NoiseOf(args.backend))
            /\ spc' = "done"
            /\ warnings' = warnings
       ELSE OfflineFailure
    /\ UNCHANGED <<twiceVars, runtimeVars, backendVars, maskVars, main2Vars, consoleVars, selectorInputs, service>>

\* Line 159, online: an error of the construction leaves the function as
\* it is.
OnlineConnect ==
    /\ spc = "online_connect"
    /\ remote' = Append(remote, RemoteCall("connect", Connects(args.instance, args.token)))
    /\ IF Connects(args.instance, args.token)
       THEN /\ service' = Len(remote) + 1
            /\ spc' = "online_backend"
            /\ result' = result
       ELSE /\ service' = service
            /\ spc' = "done"
            /\ result' = SelRaised(Exc("ConnectError", "", NoError))
    /\ UNCHANGED <<twiceVars, runtimeVars, backendVars, maskVars, main2Vars, consoleVars, selectorInputs, backend, warnings>>

\* Lines 160-161, online: the backend is bound to the local backend and
\* control goes on to line 168.
OnlineBackend ==
    /\ spc = "online_backend"
    /\ remote' = Append(remote, RemoteCall("backend", BackendFound(args.backend)))
    /\ IF BackendFound(args.backend)
       THEN /\ backend' = args.backend
            /\ spc' = "tail"
            /\ result' = result
       ELSE /\ backend' = backend
            /\ spc' = "done"
            /\ result' = SelRaised(Exc("LookupError", "", NoError))
    /\ UNCHANGED <<twiceVars, runtimeVars, backendVars, maskVars, main2Vars, consoleVars, selectorInputs, service, warnings>>

\* Lines 168-176: the check of token and instance, a construction, and the
\* return of the service alone.
TailConnect ==
    /\ spc = "tail"
    /\ IF ~(Truthy(args.token) /\ Truthy(args.instance))
       THEN /\ result' = SelRaised(Exc("ValueError", MsgBothNeeded, NoError))
            /\ UNCHANGED <<remote, service>>
       ELSE /\ remote' = Append(remote, RemoteCall("connect", Connects(args.instance, args.token)))
            /\ IF Connects(args.instance, args.token)
               THEN /\ service' = Len(remote) + 1
                    /\ result' = SelReturned("service", Len(remote) + 1, NoBackend, NoNoise)
               ELSE /\ service' = service
                    /\ result' = SelRaised(Exc("RuntimeError", MsgConnectFailed, NoError))
    /\ spc' = "done"
    /\ UNCHANGED <<twiceVars, runtimeVars, backendVars, maskVars, main2Vars, consoleVars, selectorInputs, backend, warnings>>

SelectorNext ==
    \/ SelectorEntry
    \/ OfflineConnect
    \/ OfflineBackend
    \/ OfflineNoise
    \/ OnlineConnect
    \/ OnlineBackend
    \/ TailConnect

SpecSelector == SelectorInit /\ [][SelectorNext]_vars

\* ========================================================================
\* load_qiskit_backend(service, backend_name, fallback).  One behaviour of
\* SpecBackend is one call on an established service; every
\* service.backend(name=...) call is a step of its own, recorded in lookups.

MsgBackendFailed == "Failed to connect to backend {backend_name}: {e}"
MsgNoBackendName == "No backend name provided and no environment variable for backend found."

\* service.backend(name=name): TRUE when it returns.
LookupOk(name) == IF Truthy(name) THEN name \in available ELSE unnamedOk
LookupResult(name) == IF Truthy(name) THEN name ELSE DefaultBackend
Lookup(source, name) == [source |-> source, name |-> name, ok |-> LookupOk(name)]

\* main.get_qiskit_runtime_service is not running; the backend names the
\* service offers are free.
SelectorUnused ==
    /\ args = NoArgs
    /\ available \in SUBSET BackendNames
    /\ profileOk = FALSE
    /\ spc = "idle"
    /\ service = 0
    /\ backend = NoBackend
    /\ remote = <<>>
    /\ warnings = <<>>
    /\ result = SelRunning

\* load_qiskit_runtime is not running; the fallback argument is free.
RuntimeUnused ==
    /\ fallback \in BOOLEAN
    /\ argInstance = None
    /\ argToken = None
    /\ accept = {}
    /\ environ = [instance |-> None, token |-> None]
    /\ pc = "idle"
    /\ instance = None
    /\ token = None
    /\ env = NotLoaded
    /\ alt_attempts = <<>>
    /\ idx = 1
    /\ calls = <<>>
    /\ log = <<>>
    /\ diag = NoDiag
    /\ outcome = Running

BackendInit ==
    /\ TwiceIdle
    /\ RuntimeUnused
    /\ SelectorUnused
    /\ MaskIdle
    /\ ConsoleIdle
    /\ Main2Idle
    /\ consoleBackend = None
    /\ environBackend \in BackendValues
    /\ unnamedOk \in BOOLEAN
    /\ listOk = FALSE
    /\ bpc = "call"
    /\ backend_name \in BackendValues
    /\ benv = BackendNotLoaded
    /\ lookups = <<>>
    /\ boutcome = BackendRunning
    /\ ioutcome = BackendRunning

\* _load_qiskit_backend_fallback: "raise ValueError" once no name is left.
NoNameLeft == BackendRaised(Exc("ValueError", MsgNoBackendName, NoError))

\* load_qiskit_backend(fallback=False) -> _load_qiskit_backend: one lookup
\* of backend_name, wrapped in RuntimeError when it raises.
BackendLookup ==
    /\ bpc = "call"
    /\ ~UseFallback(fallback)
    /\ lookups' = Append(lookups, Lookup("arg", backend_name))
    /\ boutcome' = IF LookupOk(backend_name)
                   THEN BackendReturned(LookupResult(backend_name))
                   ELSE BackendRaised(Exc("RuntimeError", MsgBackendFailed, NoError))
    /\ bpc' = "loaded"
    /\ UNCHANGED <<twiceVars, runtimeVars, selectorVars, maskVars, main2Vars, consoleVars, backendInputs, backend_name, benv,
                   ioutcome>>

\* _load_qiskit_backend_fallback, up to its first lookup:
\* env = _environment_parser(), then "if backend_name" and "if env.backend".
BackendFallbackStart ==
    /\ bpc = "call"
    /\ UseFallback(fallback)
    /\ benv' = [loaded |-> TRUE, backend |-> environBackend]
    /\ IF Truthy(backend_name)
       THEN /\ bpc' = "lookup_cli"
            /\ boutcome' = boutcome
       ELSE IF Truthy(environBackend)
       THEN /\ bpc' = "lookup_env"
            /\ boutcome' = boutcome
       ELSE /\ bpc' = "loaded"
            /\ boutcome' = NoNameLeft
    /\ UNCHANGED <<twiceVars, runtimeVars, selectorVars, maskVars, main2Vars, consoleVars, backendInputs, backend_name, lookups,
                   ioutcome>>

\* _load_qiskit_backend_fallback: one lookup, of backend_name (lines
\* 147-157) or of env.backend (lines 160-169).  A lookup that raises is
\* logged; after the last one the ValueError of line 173 is raised.
BackendFallbackLookup ==
    /\ bpc \in {"lookup_cli", "lookup_env"}
    /\ LET source == IF bpc = "lookup_cli" THEN "CLI" ELSE "ENV"
           name == IF bpc = "lookup_cli" THEN backend_name ELSE benv.backend
       IN  /\ lookups' = Append(lookups, Lookup(source, name))
           /\ IF LookupOk(name)
              THEN /\ boutcome' = BackendReturned(LookupResult(name))
                   /\ bpc' = "loaded"
              ELSE IF bpc = "lookup_cli" /\ Truthy(benv.backend)
              THEN /\ boutcome' = boutcome
                   /\ bpc' = "lookup_env"
              ELSE /\ boutcome' = NoNameLeft
                   /\ bpc' = "loaded"
    /\ UNCHANGED <<twiceVars, runtimeVars, selectorVars, maskVars, main2Vars, consoleVars, backendInputs, backend_name, benv,
                   ioutcome>>

BackendNext ==
    \/ BackendLookup
    \/ BackendFallbackStart
    \/ BackendFallbackLookup

SpecBackend == BackendInit /\ [][BackendNext]_vars

\* ========================================================================
\* initialize_qiskit(log_level, fallback): console = _console_parser(),
\* load_qiskit_runtime(console.instance, console.token, fallback), then
\* load_qiskit_backend(service, backend_name=None, fallback), then the log
\* line that calls service.backends(), then "return service, backend".

InitializeInit ==
    /\ TwiceIdle
    /\ SelectorUnused
    /\ MaskIdle
    /\ ConsoleIdle
    /\ Main2Idle
    /\ fallback \in BOOLEAN
    /\ argInstance \in InstanceValues
    /\ argToken \in TokenValues
    /\ environ \in [instance : InstanceValues, token : TokenValues]
    /\ accept \in {{}, InstanceNames \X TokenNames}
    /\ pc = "call"
    /\ instance = argInstance
    /\ token = argToken
    /\ env = NotLoaded
    /\ alt_attempts = <<>>
    /\ idx = 1
    /\ calls = <<>>
    /\ log = <<>>
    /\ diag = NoDiag
    /\ outcome = Running
    /\ consoleBackend \in BackendValues
    /\ environBackend \in BackendValues
    /\ unnamedOk \in BOOLEAN
    /\ listOk \in BOOLEAN
    /\ bpc = "wait"
    /\ backend_name = None
    /\ benv = BackendNotLoaded
    /\ lookups = <<>>
    /\ boutcome = BackendRunning
    /\ ioutcome = BackendRunning

MsgListFailed == "service.backends() raised"

\* Line 202, once load_qiskit_runtime has ended: its exception leaves
\* initialize_qiskit, its service goes to load_qiskit_backend with
\* backend_name=None.
InitializeBackend ==
    /\ bpc = "wait"
    /\ pc = "done"
    /\ IF outcome.kind = "returned"
       THEN /\ backend_name' = None
            /\ bpc' = "call"
            /\ ioutcome' = ioutcome
       ELSE /\ backend_name' = backend_name
            /\ bpc' = "done"
            /\ ioutcome' = BackendRaised(outcome.exc)
    /\ UNCHANGED <<twiceVars, runtimeVars, selectorVars, maskVars, main2Vars, consoleVars, backendInputs, benv, lookups,
                   boutcome>>

\* Lines 204-208, once load_qiskit_backend has ended: its exception leaves
\* initialize_qiskit; otherwise service.backends() is called for the log
\* line and the backend is returned.
InitializeFinish ==
    /\ bpc = "loaded"
    /\ ioutcome' = IF boutcome.kind = "raised" THEN boutcome
                   ELSE IF listOk THEN boutcome
                   ELSE BackendRaised(Exc("Exception", MsgListFailed, NoError))
    /\ bpc' = "done"
    /\ UNCHANGED <<twiceVars, runtimeVars, selectorVars, maskVars, main2Vars, consoleVars, backendInputs, backend_name, benv,
                   lookups, boutcome>>

InitializeNext ==
    \/ Next
    \/ InitializeBackend
    \/ BackendNext
    \/ InitializeFinish

SpecInitialize == InitializeInit /\ [][InitializeNext]_vars

\* ========================================================================
\* The token field of the log records of initializing_qiskit.py.  A token
\* is a string, modelled by the sequence of its characters; a log site
\* renders it by slicing, token[:n] + '...', or as None when it is falsy.

MaxTokenLen == 11
Alphabet == {"a", "b"}
TokenTexts == UNION {[1..n -> Alphabet] : n \in 0..MaxTokenLen}

\* token[:10] of lines 25, 47, 104 and 105; token[:8] of line 121.
DebugPrefixLen == 10
InfoPrefixLen == 8

Ellipsis == <<".", ".", ".">>
NoneText == <<"N", "o", "n", "e">>

\* Python truthiness of an Optional[str] given by its characters.
Present(t) == ~t.none /\ t.chars # <<>>

\* token[:n]
Slice(t, n) == SubSeq(t.chars, 1, IF Len(t.chars) < n THEN Len(t.chars) ELSE n)

\* f"{token[:10] + '...' if token else None}"
MaskedOrNone(t) == IF Present(t) THEN Slice(t, DebugPrefixLen) \o Ellipsis ELSE NoneText

\* f"{token[:8]}..."
MaskedInfo(t) == Slice(t, InfoPrefixLen) \o Ellipsis

Site(line, text) == [line |-> line, text |-> text]
SiteLogged(line) == \E r \in masked : r.line = line

MaskInit ==
    /\ TwiceIdle
    /\ RuntimeUnused
    /\ SelectorIdle
    /\ BackendIdle
    /\ Main2Idle
    /\ ConsoleIdle
    /\ secret \in {NoneSecret} \cup {Text(c) : c \in TokenTexts}
    /\ masked = {}

\* _console_parser, line 25: args.token
LogConsoleToken ==
    /\ ~SiteLogged(25)
    /\ masked' = masked \cup {Site(25, MaskedOrNone(secret))}
    /\ UNCHANGED <<twiceVars, runtimeVars, selectorVars, backendVars, main2Vars, consoleVars, secret>>

\* _environment_parser, line 47: env_token; called by the fallback loaders.
LogEnvironmentToken ==
    /\ UseFallback(fallback)
    /\ ~SiteLogged(47)
    /\ masked' = masked \cup {Site(47, MaskedOrNone(secret))}
    /\ UNCHANGED <<twiceVars, runtimeVars, selectorVars, backendVars, main2Vars, consoleVars, secret>>

\* _load_qiskit_runtime_fallback, lines 104 and 105: token and env.token,
\* once every attempt has failed.
LogExhaustedTokens ==
    /\ UseFallback(fallback)
    /\ SiteLogged(47)
    /\ ~SiteLogged(104)
    /\ masked' = masked \cup {Site(104, MaskedOrNone(secret)), Site(105, MaskedOrNone(secret))}
    /\ UNCHANGED <<twiceVars, runtimeVars, selectorVars, backendVars, main2Vars, consoleVars, secret>>

\* _load_qiskit_runtime, line 121: token, which line 115 found truthy.
LogLoadingToken ==
    /\ ~UseFallback(fallback)
    /\ Present(secret)
    /\ ~SiteLogged(121)
    /\ masked' = masked \cup {Site(121, MaskedInfo(secret))}
    /\ UNCHANGED <<twiceVars, runtimeVars, selectorVars, backendVars, main2Vars, consoleVars, secret>>

MaskNext ==
    \/ LogConsoleToken
    \/ LogEnvironmentToken
    \/ LogExhaustedTokens
    \/ LogLoadingToken

SpecMask == MaskInit /\ [][MaskNext]_vars

\* ========================================================================
\* main2.load_qiskit_runtime(instance, token, backend).  Every candidate is
\* one try block: QiskitRuntimeService(...), then _service.backend(name=...,
\* instance=...); both calls are recorded in m2remote.

Main2Init ==
    /\ TwiceIdle
    /\ SelectorUnused
    /\ MaskIdle
    /\ ConsoleIdle
    /\ fallback = FALSE
    /\ argInstance = None
    /\ argToken = None
    /\ accept \in {{}, InstanceNames \X TokenNames}
    /\ environ = [instance |-> None, token |-> None]
    /\ pc = "idle"
    /\ instance = None
    /\ token = None
    /\ env = NotLoaded
    /\ alt_attempts = <<>>
    /\ idx = 1
    /\ calls = <<>>
    /\ log = <<>>
    /\ diag = NoDiag
    /\ outcome = Running
    /\ consoleBackend = None
    /\ environBackend = None
    /\ unnamedOk \in BOOLEAN
    /\ listOk = FALSE
    /\ bpc = "idle"
    /\ backend_name = None
    /\ benv = BackendNotLoaded
    /\ lookups = <<>>
    /\ boutcome = BackendRunning
    /\ ioutcome = BackendRunning
    /\ cli_instance \in InstanceValues
    /\ cli_token \in TokenValues
    /\ cli_backend \in BackendValues
    /\ env_instance \in InstanceValues
    /\ env_token \in TokenValues
    /\ env_backend \in BackendValues
    /\ m2pc = "call"
    /\ m2attempts = <<>>
    /\ m2idx = 1
    /\ m2remote = <<>>
    /\ m2outcome = PairRunning

\* One remote call: the construction (arg is the token) or the backend
\* lookup (arg is the backend name) of the candidate label.
RemoteOf(op, label, i, arg, ok) ==
    [op |-> op, label |-> label, instance |-> i, arg |-> arg, ok |-> ok]

\* The remote calls of one try block: the lookup is reached only when the
\* construction returned.
TryCalls(label, i, t, b) ==
    <<RemoteOf("connect", label, i, t, Connects(i, t))>>
    \o (IF Connects(i, t)
        THEN <<RemoteOf("backend", label, i, b, LookupOk(b))>>
        ELSE <<>>)

\* "return _service, _backend" is reached when neither call raised.
TryReturnsOnConnect(connected, found) == connected
TryReturns(connected, found) == connected /\ found

\* alt_attempts of lines 54-60: (label, instance, token, backend).
Main2AltAttempts ==
    (IF Truthy(cli_instance) /\ Truthy(env_token)
     THEN << <<L2, cli_instance, env_token, cli_backend>> >> ELSE <<>>)
    \o (IF Truthy(env_instance) /\ Truthy(cli_token)
        THEN << <<L3, env_instance, cli_token, env_backend>> >> ELSE <<>>)
    \o (IF Truthy(env_instance) /\ Truthy(env_token)
        THEN << <<L4, env_instance, env_token, env_backend>> >> ELSE <<>>)

\* Lines 28-41: the locals, the environment, the branch on the CLI pair.
Main2Start ==
    /\ m2pc = "call"
    /\ IF Truthy(cli_instance) /\ Truthy(cli_token)
       THEN /\ m2pc' = "primary"
            /\ m2attempts' = m2attempts
       ELSE /\ m2pc' = "loop"
            /\ m2attempts' = Main2AltAttempts
    /\ UNCHANGED <<twiceVars, runtimeVars, selectorVars, backendVars, maskVars, consoleVars, main2Inputs,
                   m2idx, m2remote, m2outcome>>

\* Lines 42-60: candidate [1]; when one of its calls raises, the alternates
\* are listed.
Main2Primary ==
    /\ m2pc = "primary"
    /\ m2remote' = m2remote \o TryCalls(L1, cli_instance, cli_token, cli_backend)
    /\ IF TryReturns(Connects(cli_instance, cli_token), LookupOk(cli_backend))
       THEN /\ m2outcome' = PairReturned(Service(Len(m2remote) + 1, cli_instance, cli_token),
                                         LookupResult(cli_backend))
            /\ m2pc' = "done"
            /\ m2attempts' = m2attempts
       ELSE /\ m2outcome' = m2outcome
            /\ m2pc' = "loop"
            /\ m2attempts' = Main2AltAttempts
    /\ UNCHANGED <<twiceVars, runtimeVars, selectorVars, backendVars, maskVars, consoleVars, main2Inputs,
                   m2idx>>

\* Lines 63-72: one pass of the for loop.
Main2Attempt ==
    /\ m2pc = "loop"
    /\ m2idx <= Len(m2attempts)
    /\ LET a == m2attempts[m2idx] IN
        /\ m2remote' = m2remote \o TryCalls(a[1], a[2], a[3], a[4])
        /\ IF TryReturns(Connects(a[2], a[3]), LookupOk(a[4]))
           THEN /\ m2outcome' = PairReturned(Service(Len(m2remote) + 1, a[2], a[3]),
                                             LookupResult(a[4]))
                /\ m2pc' = "done"
           ELSE /\ m2outcome' = m2outcome
                /\ m2pc' = "loop"
    /\ m2idx' = m2idx + 1
    /\ UNCHANGED <<twiceVars, runtimeVars, selectorVars, backendVars, maskVars, consoleVars, main2Inputs,
                   m2attempts>>

\* Lines 74-79: the loop is over and nothing returned.
Main2Exhausted ==
    /\ m2pc = "loop"
    /\ m2idx > Len(m2attempts)
    /\ m2outcome' = PairRaised(Exc("RuntimeError", MsgAllFailed, NoError))
    /\ m2pc' = "done"
    /\ UNCHANGED <<twiceVars, runtimeVars, selectorVars, backendVars, maskVars, consoleVars, main2Inputs,
                   m2attempts, m2idx, m2remote>>

Main2Next ==
    \/ Main2Start
    \/ Main2Primary
    \/ Main2Attempt
    \/ Main2Exhausted

SpecMain2 == Main2Init /\ [][Main2Next]_vars

\* ========================================================================
\* main.console_parser(): the branch on --env, --key and --offline (lines
\* 78-99), then the log record and "return args".

MaxFileLen == 3
FileAlphabet == {"t", " "}
FileTexts == UNION {[1..n -> FileAlphabet] : n \in 0..MaxFileLen}

\* The path given with --key and the tokens of the environment.
KeyPath == <<"/", "k">>
ArgvKeys == {NoneSecret, Text(<<>>), Text(KeyPath)}
EnvTokens == {NoneSecret, Text(<<>>), Text(<<"t">>), Text(<<"t", "t">>)}

\* IBMQ_SHOTS: unset, a number or no number.
ShotsTexts == {Unset, "0", "x"}
DefaultShotsText == "1024"

\* os.getenv("IBMQ_SHOTS", "1024") and int(env_shots).
GetenvShots(v) == IF v = Unset THEN DefaultShotsText ELSE v
IsInt(text) == text \in {"0", DefaultShotsText}
IntOf(text) == IF text = "0" THEN 0 ELSE DefaultShots

\* str.strip(): the leading and the trailing whitespace removed.
RECURSIVE StripLeft(_)
StripLeft(c) == IF c # <<>> /\ Head(c) = " " THEN StripLeft(Tail(c)) ELSE c

RECURSIVE StripRight(_)
StripRight(c) ==
    IF c # <<>> /\ c[Len(c)] = " " THEN StripRight(SubSeq(c, 1, Len(c) - 1)) ELSE c

Strip(c) == StripRight(StripLeft(c))

\* main.environment_parser(): the Namespace of the environment; int()
\* raises ValueError on a text that is no number.
EnvironmentOk == IsInt(GetenvShots(osenv.shots))
EnvironmentNamespace ==
    [instance |-> osenv.instance, backend |-> osenv.backend, token |-> osenv.token,
     shots |-> IntOf(GetenvShots(osenv.shots))]

MsgInvalidLiteral == "invalid literal for int() with base 10"
MsgKeyFileNotFound == "Key file '{args.key}' not found."
MsgKeyFileFailed == "Failed to read key file '{args.key}': {e}"
WarnOverridden == "Command line arguments will be overridden by environment variables."

ConsoleInit ==
    /\ TwiceIdle
    /\ RuntimeUnused
    /\ fallback = FALSE
    /\ SelectorIdle
    /\ BackendIdle
    /\ MaskIdle
    /\ Main2Idle
    /\ argv \in [offline : BOOLEAN, env : BOOLEAN, instance : {None, "I1"},
                 backend : {None, "B1"}, shots : {0, DefaultShots}, key : ArgvKeys]
    /\ osenv \in [instance : {None, Empty, "I2"}, backend : {None, Empty, "B2"},
                  token : EnvTokens, shots : ShotsTexts]
    /\ keyFile \in {NoFile, [state |-> "unreadable", contents |-> <<>>]}
                   \cup {[state |-> "file", contents |-> c] : c \in FileTexts}
    /\ cpc = "call"
    /\ parsed = argv
    /\ clog = <<>>
    /\ coutcome = ConsoleRunning

\* any([args.instance, args.backend, args.shots, args.key])
AnyGiven(a) == Truthy(a.instance) \/ Truthy(a.backend) \/ a.shots # 0 \/ Present(a.key)

\* Lines 83-86: every field keeps its command-line value unless the
\* environment value is truthy.
Overridden(a, e) ==
    [a EXCEPT !.instance = IF ~Truthy(e.instance) THEN a.instance ELSE e.instance,
              !.backend = IF ~Truthy(e.backend) THEN a.backend ELSE e.backend,
              !.shots = IF e.shots = 0 THEN a.shots ELSE e.shots,
              !.key = IF ~Present(e.token) THEN a.key ELSE e.token]

\* "if args.env:" lines 79-86.
ConsoleOverride ==
    /\ cpc = "call"
    /\ parsed.env
    /\ clog' = IF AnyGiven(parsed) THEN Append(clog, WarnOverridden) ELSE clog
    /\ IF EnvironmentOk
       THEN /\ parsed' = Overridden(parsed, EnvironmentNamespace)
            /\ cpc' = "log"
            /\ coutcome' = coutcome
       ELSE /\ parsed' = parsed
            /\ cpc' = "done"
            /\ coutcome' = ConsoleRaised(Exc("ValueError", MsgInvalidLiteral, NoError))
    /\ UNCHANGED <<twiceVars, runtimeVars, selectorVars, backendVars, maskVars, main2Vars,
                   consoleInputs>>

\* "elif args.key:" lines 89-95: the key file is read and stripped.
ConsoleReadKey ==
    /\ cpc = "call"
    /\ ~parsed.env
    /\ Present(parsed.key)
    /\ IF keyFile.state = "file"
       THEN /\ parsed' = [parsed EXCEPT !.key = Text(Strip(keyFile.contents))]
            /\ cpc' = "log"
            /\ coutcome' = coutcome
       ELSE /\ parsed' = parsed
            /\ cpc' = "done"
            /\ coutcome' = IF keyFile.state = "missing"
                           THEN ConsoleRaised(Exc("FileNotFoundError", MsgKeyFileNotFound, NoError))
                           ELSE ConsoleRaised(Exc("RuntimeError", MsgKeyFileFailed, NoError))
    /\ UNCHANGED <<twiceVars, runtimeVars, selectorVars, backendVars, maskVars, main2Vars,
                   consoleInputs, clog>>

\* "elif not args.offline:" lines 98-99: the token of the environment.
ConsoleEnvironmentKey ==
    /\ cpc = "call"
    /\ ~parsed.env
    /\ ~Present(parsed.key)
    /\ ~parsed.offline
    /\ IF EnvironmentOk
       THEN /\ parsed' = [parsed EXCEPT !.key = EnvironmentNamespace.token]
            /\ cpc' = "log"
            /\ coutcome' = coutcome
       ELSE /\ parsed' = parsed
            /\ cpc' = "done"
            /\ coutcome' = ConsoleRaised(Exc("ValueError", MsgInvalidLiteral, NoError))
    /\ UNCHANGED <<twiceVars, runtimeVars, selectorVars, backendVars, maskVars, main2Vars,
                   consoleInputs, clog>>

\* No branch of lines 79-99 is taken: --offline without --env and --key.
ConsoleOfflineNoKey ==
    /\ cpc = "call"
    /\ ~parsed.env
    /\ ~Present(parsed.key)
    /\ parsed.offline
    /\ cpc' = "log"
    /\ UNCHANGED <<twiceVars, runtimeVars, selectorVars, backendVars, maskVars, main2Vars,
                   consoleInputs, parsed, clog, coutcome>>

\* Lines 101-112: the debug record, with the key sliced, and "return args".
ConsoleReturn ==
    /\ cpc = "log"
    /\ clog' = Append(clog, MaskedOrNone(parsed.key))
    /\ coutcome' = ConsoleReturned(parsed)
    /\ cpc' = "done"
    /\ UNCHANGED <<twiceVars, runtimeVars, selectorVars, backendVars, maskVars, main2Vars,
                   consoleInputs, parsed>>

ConsoleNext ==
    \/ ConsoleOverride
    \/ ConsoleReadKey
    \/ ConsoleEnvironmentKey
    \/ ConsoleOfflineNoKey
    \/ ConsoleReturn

SpecConsole == ConsoleInit /\ [][ConsoleNext]_vars

\* ========================================================================
\* Properties.

\* The source a label names for each of its two values.
SourceInstance(label) == IF label \in {L1, L2} THEN argInstance ELSE environ.instance
SourceToken(label) == IF label \in {L1, L3} THEN argToken ELSE environ.token

\* The rank a label carries.
Rank(label) == CASE label = L1 -> 1 [] label = L2 -> 2 [] label = L3 -> 3 [] label = L4 -> 4

\* A source combination is populated when both of its values are truthy.
Populated(label) == Truthy(SourceInstance(label)) /\ Truthy(SourceToken(label))

\* The populated source combinations, in the order of their labels.
CandidateLabels == SelectSeq(<<L1, L2, L3, L4>>, Populated)

CallLabels == [k \in DOMAIN calls |-> calls[k].label]
CallPairs == [k \in DOMAIN calls |-> <<calls[k].instance, calls[k].token>>]

IsPrefix(s, t) == Len(s) <= Len(t) /\ \A k \in DOMAIN s : s[k] = t[k]

CliComplete == Truthy(argInstance) /\ Truthy(argToken)
EnvComplete == Truthy(environ.instance) /\ Truthy(environ.token)

\* ------------------------------------------------------------------------
\* C1: with fallback disabled, whenever the instance or the token passed is
\* None or empty, the loader ends with ValueError and QiskitRuntimeService
\* is never constructed.
C1_MissingParameterNoConnect ==
    (~fallback /\ ~CliComplete) =>
        /\ calls = <<>>
        /\ pc \in {"call", "done"}
        /\ pc = "done" =>
            /\ outcome.kind = "raised"
            /\ outcome.exc.type = "ValueError"

C1_Witness ==
    /\ ~fallback
    /\ Truthy(argInstance)
    /\ argToken = Empty
    /\ EnvComplete
    /\ pc = "done"
    /\ outcome.kind = "raised"
    /\ outcome.exc.type = "ValueError"
    /\ calls = <<>>

\* ------------------------------------------------------------------------
\* C2: with fallback disabled and both values passed, exactly one
\* construction is made, with exactly those two values; when it raises the
\* loader ends with a RuntimeError wrapping it, and the environment is
\* neither read nor tried.
C2_SingleAttemptNoEnvironment ==
    (~fallback /\ CliComplete) =>
        /\ ~env.loaded
        /\ Len(calls) <= 1
        /\ \A k \in DOMAIN calls :
            /\ calls[k].instance = argInstance
            /\ calls[k].token = argToken
        /\ pc = "done" =>
            /\ Len(calls) = 1
            /\ calls[1].ok => outcome = Returned(Service(1, argInstance, argToken))
            /\ ~calls[1].ok =>
                /\ outcome.kind = "raised"
                /\ outcome.exc.type = "RuntimeError"
                /\ outcome.exc.cause = ConnectError(argInstance, argToken)

C2_Witness ==
    /\ ~fallback
    /\ CliComplete
    /\ EnvComplete
    /\ <<environ.instance, environ.token>> \in accept
    /\ pc = "done"
    /\ Len(calls) = 1
    /\ ~calls[1].ok
    /\ outcome.exc.type = "RuntimeError"

\* ------------------------------------------------------------------------
\* C3: with fallback enabled the constructions are made in the order of
\* their labels' ranks: the CLI pair, when complete, is the first one, the
\* ENV pair, when tried, is the last one, and the ranks of the
\* constructions made strictly increase.
C3_RankOrder ==
    fallback =>
        /\ \A j, k \in DOMAIN calls : j < k => Rank(calls[j].label) < Rank(calls[k].label)
        /\ (CliComplete /\ calls # <<>>) =>
            /\ calls[1].label = L1
            /\ calls[1].instance = argInstance
            /\ calls[1].token = argToken
        /\ (CliComplete /\ pc = "done") => calls # <<>>
        /\ \A k \in DOMAIN calls : calls[k].label = L4 =>
            /\ k = Len(calls)
            /\ calls[k].instance = environ.instance
            /\ calls[k].token = environ.token

C3_Witness ==
    /\ fallback
    /\ pc = "done"
    /\ CallLabels = <<L1, L2, L3, L4>>
    /\ argInstance # environ.instance
    /\ argToken # environ.token

\* ------------------------------------------------------------------------
\* C4: with fallback enabled every construction, and every listed
\* alternate, has a truthy instance and a truthy token, each the value of
\* the source its label names; so a combination with a value missing in the
\* source it names is never tried.
C4_AttemptsFullyPopulated ==
    fallback =>
        /\ \A k \in DOMAIN calls :
            /\ Truthy(calls[k].instance)
            /\ Truthy(calls[k].token)
            /\ calls[k].instance = SourceInstance(calls[k].label)
            /\ calls[k].token = SourceToken(calls[k].label)
        /\ \A k \in DOMAIN alt_attempts :
            /\ Truthy(alt_attempts[k][2])
            /\ Truthy(alt_attempts[k][3])
            /\ alt_attempts[k][2] = SourceInstance(alt_attempts[k][1])
            /\ alt_attempts[k][3] = SourceToken(alt_attempts[k][1])

C4_Witness ==
    /\ fallback
    /\ pc = "done"
    /\ Truthy(argInstance)
    /\ ~Truthy(argToken)
    /\ environ.instance = Empty
    /\ Truthy(environ.token)
    /\ CallLabels = <<L2>>

\* ------------------------------------------------------------------------
\* C5: with fallback enabled, a construction that returned is the last one
\* made, the loader is over, and the service returned is the one that
\* construction produced.
C5_FirstSuccessEnds ==
    fallback =>
        /\ \A k \in DOMAIN calls : calls[k].ok =>
            /\ k = Len(calls)
            /\ pc = "done"
            /\ outcome = Returned(Service(k, calls[k].instance, calls[k].token))
        /\ outcome.kind = "returned" =>
            /\ calls # <<>>
            /\ calls[Len(calls)].ok
            /\ outcome.service.call = Len(calls)

C5_Witness ==
    /\ fallback
    /\ pc = "done"
    /\ outcome.kind = "returned"
    /\ CallLabels = <<L1, L2>>
    /\ Len(alt_attempts) = 3
    /\ <<environ.instance, environ.token>> \in accept

\* ------------------------------------------------------------------------
\* The failures the log holds, and the failures of the constructions made.
IsFailureRec(r) == r.level = "error" /\ r.event = "failed"
LoggedFailures ==
    LET recs == SelectSeq(log, IsFailureRec)
    IN  [k \in DOMAIN recs |-> <<recs[k].label, recs[k].err>>]

IsFailedCall(c) == ~c.ok
FailedCalls == SelectSeq(calls, IsFailedCall)
AttemptFailures ==
    [k \in DOMAIN FailedCalls |->
        <<FailedCalls[k].label, ConnectError(FailedCalls[k].instance, FailedCalls[k].token)>>]

\* The (label, error) pairs an exception object carries: its message is a
\* fixed text, so only a __cause__ carries an underlying error.
CarriedFailures(e) == IF e.cause = NoError THEN <<>> ELSE << <<NoLabel, e.cause>> >>

\* ------------------------------------------------------------------------
\* C6: with fallback enabled, the error of a construction never reaches the
\* caller: each one is logged as an error with the label of its attempt,
\* in attempt order, the next populated combination is then tried, and the
\* only exception the loader ends with is the RuntimeError raised once
\* every populated combination has been tried.
C6_AttemptErrorsCaught ==
    fallback =>
        /\ LoggedFailures = AttemptFailures
        /\ IsPrefix(CallLabels, CandidateLabels)
        /\ pc = "done" =>
            \/ CallLabels = CandidateLabels
            \/ (calls # <<>> /\ calls[Len(calls)].ok)
        /\ outcome.kind = "raised" =>
            /\ pc = "done"
            /\ CallLabels = CandidateLabels
            /\ \A k \in DOMAIN calls : ~calls[k].ok
            /\ outcome.exc.type = "RuntimeError"
            /\ outcome.exc.msg = MsgAllFailed
            /\ outcome.exc.cause = NoError

C6_Witness ==
    /\ fallback
    /\ pc = "done"
    /\ outcome.kind = "returned"
    /\ CallLabels = <<L1, L2, L3>>
    /\ Len(LoggedFailures) = 2

DistinctPopulatedPairs ==
    {<<SourceInstance(l), SourceToken(l)>> : l \in {m \in {L1, L2, L3, L4} : Populated(m)}}

C8_NoRepeatedValuePair ==
    fallback =>
        /\ \A j, k \in DOMAIN calls : j # k => CallPairs[j] # CallPairs[k]
        /\ (pc = "done" /\ outcome.kind = "raised") =>
            Len(calls) = Cardinality(DistinctPopulatedPairs)

\* ------------------------------------------------------------------------
\* C9 as stated (the docstring's order): with all four values present and
\* every construction rejected, the (instance, token) pairs passed are
\* CLI+CLI, then ENV instance + CLI token, then CLI instance + ENV token,
\* then ENV+ENV.
C9_DocumentedOrder ==
    (fallback /\ CliComplete /\ EnvComplete /\ pc = "done" /\ outcome.kind = "raised") =>
        CallPairs = << <<argInstance, argToken>>,
                       <<environ.instance, argToken>>,
                       <<argInstance, environ.token>>,
                       <<environ.instance, environ.token>> >>

\* ------------------------------------------------------------------------
\* C10: with fallback enabled and values in one source only, the run is the
\* run on that source alone: at most one construction, made with that
\* source's instance and token, both truthy; the loader returns that
\* construction's service when it is accepted and ends with the terminal
\* RuntimeError otherwise.
OnlyCli ==
    /\ Truthy(argInstance) \/ Truthy(argToken)
    /\ ~Truthy(environ.instance)
    /\ ~Truthy(environ.token)

OnlyEnv ==
    /\ Truthy(environ.instance) \/ Truthy(environ.token)
    /\ ~Truthy(argInstance)
    /\ ~Truthy(argToken)

SingleSourceRun(i, t) ==
    /\ Len(calls) <= 1
    /\ \A k \in DOMAIN calls :
        /\ calls[k].instance = i
        /\ calls[k].token = t
        /\ Truthy(i)
        /\ Truthy(t)
    /\ pc = "done" =>
        IF Truthy(i) /\ Truthy(t)
        THEN /\ Len(calls) = 1
             /\ outcome = IF <<i, t>> \in accept
                          THEN Returned(Service(1, i, t))
                          ELSE Raised(Exc("RuntimeError", MsgAllFailed, NoError))
        ELSE /\ calls = <<>>
             /\ outcome = Raised(Exc("RuntimeError", MsgAllFailed, NoError))

C10_SingleSourceOnly ==
    fallback =>
        /\ OnlyCli => SingleSourceRun(argInstance, argToken)
        /\ OnlyEnv => SingleSourceRun(environ.instance, environ.token)

C10_Witness ==
    /\ fallback
    /\ OnlyEnv
    /\ pc = "done"
    /\ Len(calls) = 1
    /\ calls[1].label = L4
    /\ outcome.kind = "returned"

\* ------------------------------------------------------------------------
\* C11: with fallback enabled, a CLI token but no CLI instance, and both
\* environment values, the alternates listed are exactly the CLI token
\* with the ENV instance, then the ENV pair; at most two constructions are
\* made, and the loader returns the service of the first of the two that
\* the remote service accepts.
ScenarioOne ==
    /\ fallback
    /\ ~Truthy(argInstance)
    /\ Truthy(argToken)
    /\ EnvComplete

ScenarioOnePairs ==
    << <<environ.instance, argToken>>, <<environ.instance, environ.token>> >>

C11_ScenarioOneCandidates ==
    ScenarioOne =>
        /\ pc # "primary"
        /\ pc \in {"loop", "done"} =>
            alt_attempts = << <<L3, environ.instance, argToken>>,
                              <<L4, environ.instance, environ.token>> >>
        /\ Len(calls) <= 2
        /\ IsPrefix(CallPairs, ScenarioOnePairs)
        /\ pc = "done" =>
            outcome = IF ScenarioOnePairs[1] \in accept
                      THEN Returned(Service(1, environ.instance, argToken))
                      ELSE IF ScenarioOnePairs[2] \in accept
                      THEN Returned(Service(2, environ.instance, environ.token))
                      ELSE Raised(Exc("RuntimeError", MsgAllFailed, NoError))

C11_Witness ==
    /\ ScenarioOne
    /\ argInstance = None
    /\ argToken # environ.token
    /\ pc = "done"
    /\ CallLabels = <<L3, L4>>
    /\ outcome.kind = "returned"

\* ------------------------------------------------------------------------
\* C20 as stated: the values the fallback loader holds and reports as the
\* CLI instance and the CLI token are the ones the caller passed, at every
\* point once the alternates are listed and in the final diagnostic.
C20_CliValuesUnaltered ==
    fallback =>
        /\ pc \in {"loop", "done"} =>
            /\ instance = argInstance
            /\ token = argToken
        /\ diag.written =>
            /\ diag.cliInstance = argInstance
            /\ diag.cliToken = argToken

RemoteOps == [k \in DOMAIN remote |-> remote[k].op]
IsConnect(c) == c.op = "connect"
Connections == SelectSeq(remote, IsConnect)
IsLocal(b) == b \in {LocalBackend, SeededBackend}

\* ------------------------------------------------------------------------
\* C12 as stated: online, with the token, the instance or the backend name
\* missing, the call ends with the missing-parameter error (ValueError),
\* makes no remote call and returns no local backend.
C12_OnlineMissingParameter ==
    (spc # "idle" /\ ~args.offline /\ ~AllThree(args)) =>
        /\ remote = <<>>
        /\ spc = "done" =>
            /\ result.kind = "raised"
            /\ result.exc.type = "ValueError"

\* ------------------------------------------------------------------------
\* C13 as stated: online with all three values, the call either returns
\* the backend it resolved through the connection or raises; it makes one
\* connection only.
C13_OnlineReturnsResolvedBackend ==
    (spc # "idle" /\ ~args.offline /\ AllThree(args)) =>
        /\ Len(Connections) <= 1
        /\ spc = "done" =>
            \/ result.kind = "raised"
            \/ /\ result.kind = "returned"
               /\ result.backend = args.backend
               /\ Len(Connections) = 1

\* ------------------------------------------------------------------------
\* C14 as stated: offline, the call never raises and returns a local
\* backend, whatever values are present and whatever the remote calls do;
\* with all three values and a failed remote call, no remote call follows
\* the failure and the caller gets the unseeded simulator and one warning.
C14_OfflineNeverRaises ==
    (spc # "idle" /\ args.offline) =>
        /\ result.kind # "raised"
        /\ spc = "done" =>
            /\ result.kind = "returned"
            /\ IsLocal(result.backend)
        /\ \A k \in DOMAIN remote : ~remote[k].ok => k = Len(remote)
        /\ (spc = "done" /\ \E k \in DOMAIN remote : ~remote[k].ok) =>
            /\ result.backend = LocalBackend
            /\ result.noise = NoNoise
            /\ Len(warnings) = 1

\* ------------------------------------------------------------------------
\* C15 as stated: offline with some but not all of the three values, the
\* call returns the unseeded simulator with no service and no noise model,
\* prints one warning and makes no remote call.
C15_OfflinePartial ==
    (spc # "idle" /\ args.offline /\ AnyOfThree(args) /\ ~AllThree(args)) =>
        /\ remote = <<>>
        /\ result.kind # "raised"
        /\ spc = "done" =>
            /\ result = SelReturned("tuple", 0, LocalBackend, NoNoise)
            /\ Len(warnings) = 1
\* The service.backend calls that raised.
FailedLookups == {k \in DOMAIN lookups : ~lookups[k].ok}

\* C16: a ValueError reports a missing parameter and is raised before any
\* remote attempt: load_qiskit_backend never raises ValueError after a
\* service.backend call has been attempted and has failed.
C16_ValueErrorBeforeRemote ==
    (boutcome.kind = "raised" /\ boutcome.exc.type = "ValueError") => FailedLookups = {}

\* C17: in initialize_qiskit with fallback, a --backend given on the command
\* line is the first backend name looked up, and IBMQ_BACKEND is looked up
\* only when the command line gave none or its lookup failed.
C17_ConsoleBackendFirst ==
    (fallback /\ Truthy(consoleBackend) /\ boutcome.kind # "running")
        => /\ lookups # <<>>
           /\ lookups[1].source = "CLI"
           /\ lookups[1].name = consoleBackend

\* text contains t as a contiguous run of characters.
Contains(text, t) ==
    \E i \in 1..(Len(text) - Len(t) + 1) : SubSeq(text, i, i + Len(t) - 1) = t

\* C18: no log record contains the full token: a present token is rendered
\* at every log site as its prefix of one length N followed by "...", and
\* that prefix is strictly shorter than the token.
C18_TokenNeverInFull ==
    Present(secret) =>
        \E n \in 0..MaxTokenLen :
            /\ n < Len(secret.chars)
            /\ \A r \in masked :
                /\ r.text = SubSeq(secret.chars, 1, n) \o Ellipsis
                /\ ~Contains(r.text, secret.chars)

\* No entry of the candidate list is attempted twice.
NoLabelTwice == \A j, k \in DOMAIN calls : calls[j].label = calls[k].label => j = k

\* How a run of the fallback resolver may end.
EndsReturnedOrAllFailed ==
    \/ outcome.kind = "returned" /\ calls # <<>> /\ calls[Len(calls)].ok
    \/ /\ outcome.kind = "raised"
       /\ outcome.exc.type = "RuntimeError"
       /\ outcome.exc.msg = MsgAllFailed

\* C22: every run of the fallback resolver terminates, after at most 4
\* connect calls, by returning a connection handle or by raising the
\* terminal RuntimeError, and no candidate (entry [1]..[4]) is attempted
\* again after it has failed.
C22_FallbackTerminates ==
    /\ [](UseFallback(fallback) =>
            /\ Len(calls) <= 4
            /\ NoLabelTwice
            /\ (pc = "done" => EndsReturnedOrAllFailed))
    /\ (UseFallback(fallback) ~> (pc = "done"))

C22_Witness ==
    /\ UseFallback(fallback)
    /\ pc = "done"
    /\ Len(calls) = 4
    /\ outcome.kind = "raised"

\* The backend name of the candidate label: the CLI name for [1] and [2],
\* the environment name for [3] and [4].
CandidateBackend(label) == IF label \in {L1, L2} THEN cli_backend ELSE env_backend

EstablishedConnections == {k \in DOMAIN m2remote : m2remote[k].op = "connect" /\ m2remote[k].ok}

\* C21: in main2.load_qiskit_runtime a candidate is a construction followed
\* by the lookup of that candidate's backend name on the new service; a
\* failure of either call is followed by the next candidate or by the
\* terminal error, and a pair is returned only from a candidate whose two
\* calls both succeeded.
C21_CombinedCandidateStep ==
    /\ \A k \in DOMAIN m2remote :
        LET r == m2remote[k] IN
        /\ (r.op = "connect" /\ r.ok) =>
            /\ k + 1 \in DOMAIN m2remote
            /\ m2remote[k + 1].op = "backend"
            /\ m2remote[k + 1].label = r.label
            /\ m2remote[k + 1].instance = r.instance
            /\ m2remote[k + 1].arg = CandidateBackend(r.label)
        /\ r.op = "backend" => (k > 1 /\ m2remote[k - 1].op = "connect" /\ m2remote[k - 1].ok)
        /\ (~r.ok /\ k < Len(m2remote)) =>
            /\ m2remote[k + 1].op = "connect"
            /\ m2remote[k + 1].label # r.label
        /\ (~r.ok /\ k = Len(m2remote)) => m2outcome.kind # "returned"
    /\ m2outcome.kind = "returned" =>
        /\ Len(m2remote) >= 2
        /\ LET c == m2remote[Len(m2remote) - 1]
               b == m2remote[Len(m2remote)]
           IN  /\ c.op = "connect" /\ c.ok
               /\ b.op = "backend" /\ b.ok /\ b.label = c.label
               /\ m2outcome.service.instance = c.instance
               /\ m2outcome.service.token = c.arg
               /\ m2outcome.backend = LookupResult(b.arg)

C21_Witness ==
    /\ m2outcome.kind = "returned"
    /\ Cardinality(EstablishedConnections) > 1
    /\ \E k \in DOMAIN m2remote : m2remote[k].op = "backend" /\ ~m2remote[k].ok

\* C23: whenever main.console_parser returns with a non-empty args.key, the
\* key is the environment token or the stripped contents of the key file,
\* never the path given with --key.
C23_ReturnedKeyIsToken ==
    (coutcome.kind = "returned" /\ Present(coutcome.args.key)) =>
        \/ coutcome.args.key = osenv.token
        \/ /\ keyFile.state = "file"
           /\ ~argv.env
           /\ coutcome.args.key = Text(Strip(keyFile.contents))

====
